---- MODULE Spec2Model ----
(***************************************************************************)
(* A model of rce_tester.py: the Scorer (score_payload_output), the        *)
(* Payload Runner (run_qsreplace), the Work Dispatcher (process_url and    *)
(* the batch loop of main) and the Resume Ledger (load_state, save_state). *)
(*                                                                         *)
(* Texts (captured output, error text) are sequences of one-character      *)
(* strings, so that lower-casing and substring search are computed.        *)
(***************************************************************************)
EXTENDS Integers, Sequences, FiniteSets, TLC

VARIABLES
    args,            \* the parsed command line: dry_run, resume, retries, max_workers
    stop_execution,  \* the global flag set by signal_handler
    state_file,      \* content of rce_state.json
    processed_urls,  \* the set main holds and process_url adds to
    urls,            \* main's list of URLs after loading and filtering
    url_idx,         \* position of main's loop in urls (1-based)
    all_results,     \* main's aggregate list of Outcomes
    pc,              \* position of the main thread
    workers,         \* per payload: the run_qsreplace call submitted to the pool
    invoked,         \* history: the starts of the external utility, by (url, flag value)
    clock,           \* the second datetime.now() last returned
    written,         \* history: the writes of artifact files, by path and writing call
    sc_output,       \* Scorer harness: the output text handed to the Scorer
    sc_error,        \* Scorer harness: the error text handed to the Scorer
    sc_score,        \* Scorer harness: the value the Scorer returned
    saved,           \* Ledger harness: the set the record on disk was saved from
    loaded           \* Ledger harness: the value the last load_state returned

vars == <<args, stop_execution, state_file, processed_urls, urls, url_idx,
          all_results, pc, workers, invoked, clock, written, sc_output, sc_error,
          sc_score, saved, loaded>>

runVars == <<args, stop_execution, urls, url_idx, all_results, workers, invoked,
            clock, written>>
scorerVars == <<sc_output, sc_error, sc_score>>
ledgerVars == <<saved, loaded>>

(***************************************************************************)
(* Bounds of the model.                                                    *)
(***************************************************************************)
MaxRetries == 2      \* args.retries ranges over 0..MaxRetries
MaxFrags == 3        \* Scorer inputs are made of at most MaxFrags fragments
MaxClock == 1        \* the run lasts from second 0 to second MaxClock

(***************************************************************************)
(* Texts.                                                                  *)
(***************************************************************************)
Empty == << >>

UpperCase == <<"A","B","C","D","E","F","G","H","I","J","K","L","M",
               "N","O","P","Q","R","S","T","U","V","W","X","Y","Z">>
LowerCase == <<"a","b","c","d","e","f","g","h","i","j","k","l","m",
               "n","o","p","q","r","s","t","u","v","w","x","y","z">>

\* str.lower() on one character
LowerChar(c) ==
    IF \E i \in 1..Len(UpperCase) : UpperCase[i] = c
    THEN LowerCase[CHOOSE i \in 1..Len(UpperCase) : UpperCase[i] = c]
    ELSE c

\* str.lower()
Lower(s) == [i \in 1..Len(s) |-> LowerChar(s[i])]

\* Python's `sub in s` on strings
Contains(s, sub) ==
    \E i \in 0..(Len(s) - Len(sub)) :
        \A j \in 1..Len(sub) : s[i + j] = sub[j]

(***************************************************************************)
(* Scorer: score_payload_output.                                           *)
(***************************************************************************)
keywords == <<
      <<"u","i","d","=">>,
      <<"g","i","d","=">>,
      <<"r","o","o","t",":">>,
      <<"e","t","c","/","p","a","s","s","w","d">>,
      <<"e","t","c","/","s","h","a","d","o","w">>,
      <<"v","u","l","n","e","r","a","b","l","e">>,
      <<"b","a","s","h">>,
      <<"w","h","o","a","m","i">>,
      <<"u","n","a","m","e"," ","-","a">>,
      <<"i","d",":">>,
      <<"s","u","c","c","e","s","s","f","u","l","l","y"," ","e","x","e","c","u","t","e","d">>
    >>

negative_markers == <<
      <<"c","o","m","m","a","n","d"," ","n","o","t"," ","f","o","u","n","d">>,
      <<"p","e","r","m","i","s","s","i","o","n"," ","d","e","n","i","e","d">>
    >>

KeywordWeight == 2
NegativePenalty == 1

\* sum(2 if keyword in output.lower() else 0 for keyword in keywords)
RECURSIVE KeywordSum(_, _)
KeywordSum(kws, output) ==
    IF kws = Empty THEN 0
    ELSE (IF Contains(Lower(output), Head(kws)) THEN KeywordWeight ELSE 0)
         + KeywordSum(Tail(kws), output)

\* any(cmd in output.lower() for cmd in [...])
AnyNegative(output) ==
    \E i \in 1..Len(negative_markers) : Contains(Lower(output), negative_markers[i])

Max(a, b) == IF a >= b THEN a ELSE b

\* number of keywords that occur in the lower-cased output
RECURSIVE KeywordCount(_, _)
KeywordCount(kws, output) ==
    IF kws = Empty THEN 0
    ELSE (IF Contains(Lower(output), Head(kws)) THEN 1 ELSE 0)
         + KeywordCount(Tail(kws), output)

NegativeCount(output) ==
    Cardinality({i \in 1..Len(negative_markers) :
                    Contains(Lower(output), negative_markers[i])})

\* mutant: a keyword weighs 1 instead of 2
score_weight_one(output, error) ==
    IF error # Empty THEN 0
    ELSE LET score == KeywordCount(keywords, output)
         IN  Max(0, IF AnyNegative(output) THEN score - NegativePenalty ELSE score)

\* mutant: the penalty is taken once per negative marker found
score_penalty_each(output, error) ==
    IF error # Empty THEN 0
    ELSE Max(0, KeywordSum(keywords, output) - NegativePenalty * NegativeCount(output))

\* mutant: the result is not clamped at 0
score_unclamped(output, error) ==
    IF error # Empty THEN 0
    ELSE LET score == KeywordSum(keywords, output)
         IN  IF AnyNegative(output) THEN score - NegativePenalty ELSE score

score_payload_output(output, error) ==
    IF error # Empty THEN 0
    ELSE LET score == KeywordSum(keywords, output)
         IN  Max(0, IF AnyNegative(output) THEN score - NegativePenalty ELSE score)

(***************************************************************************)
(* Texts of the environment: what the external utility prints and what an  *)
(* exception says.                                                         *)
(***************************************************************************)
\* f"Timeout after {timeout} seconds", the default timeout being 30
TimeoutMsg == <<"T","i","m","e","o","u","t"," ","a","f","t","e","r"," ","3","0"," ","s","e","c","o","n","d","s">>
\* str(e) of an exception, here one that names a shell
ExcMsg == <<"n","o"," ","b","a","s","h">>
ErrTexts == {TimeoutMsg, ExcMsg}

IdText == <<"u","i","d","=","0","(","r","o","o","t",")"," ","g","i","d","=","0","(","r","o","o","t",")">>
DeniedText == <<"P","e","r","m","i","s","s","i","o","n"," ","D","e","n","i","e","d">>

Fragments == {
    <<"u","i","d","=","0","(","r","o","o","t",")">>,
    <<" ","g","i","d","=","0","(","r","o","o","t",")">>,
    <<"u">>,
    <<"I","D","=">>,
    <<"r","o","o","t",":">>,
    <<"b","a","s","h">>,
    <<"i","d",":">>,
    <<"c","o","m","m","a","n","d"," ","n","o","t"," ","f","o","u","n","d">>,
    DeniedText,
    <<" ">> }

\* every concatenation of at most n fragments
RECURSIVE TextsUpTo(_)
TextsUpTo(n) ==
    IF n = 0 THEN {Empty}
    ELSE LET shorter == TextsUpTo(n - 1)
         IN  shorter \cup {t \o f : t \in shorter, f \in Fragments}

ScorerTexts == TextsUpTo(MaxFrags)

(***************************************************************************)
(* Resume Ledger: rce_state.json, save_state and load_state.               *)
(*                                                                         *)
(* The file is absent, holds text json.load rejects, or holds a JSON       *)
(* document.  A document is an object with one member, an array of         *)
(* strings, an array of arrays, a string (its characters) or null.         *)
(***************************************************************************)
Missing == [t |-> "missing"]
NotJson == [t |-> "not_json"]
JsonFile(doc) == [t |-> "json", doc |-> doc]

JArray(items) == [j |-> "array", items |-> items]
JArrays(rows) == [j |-> "arrays", rows |-> rows]
JString(chars) == [j |-> "string", chars |-> chars]
JNull == [j |-> "null"]
JObject(key, val) == [j |-> "object", key |-> key, val |-> val]

Range(seq) == {seq[i] : i \in 1..Len(seq)}

\* the lists list(a_set) can return
Orders(S) ==
    {seq \in [1..Cardinality(S) -> S] : \A i, k \in 1..Cardinality(S) : seq[i] = seq[k] => i = k}

\* json.dump({"processed_urls": list(processed_urls)}, f), `order` being the list
save_state(order) == JsonFile(JObject("processed_urls", JArray(order)))

\* dict.get("processed_urls", []) on a parsed object
GetProcessedUrls(obj) == IF obj.key = "processed_urls" THEN obj.val ELSE JArray(Empty)

\* set(value): the elements of an array of strings, the characters of a string, the
\* keys of an object; TypeError (caught: the empty set) for null and for an array
\* that holds arrays, which are unhashable
SetOf(value) ==
    CASE value.j = "array" -> Range(value.items)
      [] value.j = "string" -> Range(value.chars)
      [] value.j = "object" -> {value.key}
      [] OTHER -> {}

load_state(file) ==
    IF file.t = "missing" THEN {}
    ELSE IF file.t = "not_json" THEN {}
    ELSE IF file.doc.j # "object" THEN {}
    ELSE SetOf(GetProcessedUrls(file.doc))


(***************************************************************************)
(* Values the variables of one harness hold while another one runs.        *)
(***************************************************************************)
NoArgs == [dry_run |-> FALSE, resume |-> FALSE, retries |-> 0, max_workers |-> 1,
           targets |-> {}, payloads |-> {}]
IdleRun ==
    /\ args = NoArgs
    /\ stop_execution = FALSE
    /\ urls = Empty
    /\ url_idx = 1
    /\ all_results = Empty
    /\ workers = Empty
    /\ invoked = {}
    /\ clock = 0
    /\ written = {}

IdleScorer ==
    /\ sc_output = Empty
    /\ sc_error = Empty
    /\ sc_score = 0

IdleLedger ==
    /\ saved = [valid |-> FALSE, set |-> {}]
    /\ loaded = [done |-> FALSE, set |-> {}]

(***************************************************************************)
(* Scorer harness: one call of score_payload_output on a drawn input.      *)
(***************************************************************************)
InitScorer ==
    /\ pc = "score_call"
    /\ sc_output \in ScorerTexts
    /\ sc_error \in {Empty} \cup ErrTexts
    /\ sc_score = 0
    /\ IdleRun
    /\ IdleLedger
    /\ state_file = Missing
    /\ processed_urls = {}

ScoreCall ==
    /\ pc = "score_call"
    /\ sc_score' = score_payload_output(sc_output, sc_error)
    /\ pc' = "score_done"
    /\ UNCHANGED <<sc_output, sc_error, state_file, processed_urls>>
    /\ UNCHANGED runVars
    /\ UNCHANGED ledgerVars

NextScorer == ScoreCall

SpecScorer == InitScorer /\ [][NextScorer]_vars

\* the distinct indicators that occur in the lower-cased text
IndicatorsIn(output) ==
    {keywords[i] : i \in {j \in 1..Len(keywords) : Contains(Lower(output), keywords[j])}}

NegativesIn(output) ==
    {negative_markers[i] :
        i \in {j \in 1..Len(negative_markers) : Contains(Lower(output), negative_markers[j])}}

Scored == pc = "score_done"

\* C7 (as stated): a non-errored output with at least one indicator scores at least 2.
C7_Original ==
    (Scored /\ sc_error = Empty /\ IndicatorsIn(sc_output) # {}) => sc_score >= 2

\* C7 (amended): a non-errored output with at least one indicator scores at least 2
\* when it holds no negative marker, and at least 1 when it holds one.
C7_LowerBound ==
    (Scored /\ sc_error = Empty /\ IndicatorsIn(sc_output) # {}) =>
        /\ sc_score >= 1
        /\ (NegativesIn(sc_output) = {} => sc_score >= 2)

C7_Witness ==
    /\ Scored
    /\ sc_error = Empty
    /\ Cardinality(IndicatorsIn(sc_output)) = 1
    /\ NegativesIn(sc_output) # {}
    /\ sc_score = 1

\* C8: for a non-errored input the score is max(0, 2k - p), k the number of distinct
\* indicators that occur in the lower-cased output and p = 1 if a negative marker
\* occurs, else 0; `uid=0(root) gid=0(root)` scores 4.
C8_Formula ==
    (Scored /\ sc_error = Empty) =>
        LET k == Cardinality(IndicatorsIn(sc_output))
            p == IF NegativesIn(sc_output) # {} THEN 1 ELSE 0
        IN  /\ sc_score = Max(0, 2 * k - p)
            /\ (k = 1 /\ p = 1 => sc_score = 1)
            /\ (sc_output = IdText => sc_score = 4)

C8_Witness ==
    /\ Scored
    /\ sc_error = Empty
    /\ sc_output = IdText
    /\ sc_score = 4

(***************************************************************************)
(* The run: main, process_url and the run_qsreplace calls of the pool.     *)
(***************************************************************************)
UrlA == "http://a.test/?q=1"
UrlB == "http://b.test/?q=1"
Urls == {UrlA, UrlB}

\* payloads of the payload file; the first two agree in their first ten characters
PasswdPayload == ";cat /etc/passwd"
ShadowPayload == ";cat /etc/shadow"
IdPayload == "|id"
Payloads == {PasswdPayload, ShadowPayload, IdPayload}

\* the payload lists load_payloads returns in the runs explored
PayloadSets == {{IdPayload}, {PasswdPayload, ShadowPayload}, {PasswdPayload, IdPayload}}

\* the characters of a payload
PayloadChars(p) ==
    CASE p = PasswdPayload -> <<";","c","a","t"," ","/","e","t","c","/","p","a","s","s","w","d">>
      [] p = ShadowPayload -> <<";","c","a","t"," ","/","e","t","c","/","s","h","a","d","o","w">>
      [] p = IdPayload -> <<"|","i","d">>

PrefixLen == 10

\* payload[:10]
Truncated(chars) == SubSeq(chars, 1, IF Len(chars) < PrefixLen THEN Len(chars) ELSE PrefixLen)

\* The name of the artifact file: the quoted URL, the quoted first ten characters of
\* the payload and the time to the second.  quote(safe='') maps distinct texts to
\* distinct texts, so the parts stand for their quoted forms; the directory of the
\* file is a function of the URL.
sanitize_filename(url, payload, now) == <<url, Truncated(PayloadChars(payload)), now>>

\* the seconds a reading of the clock can return: time does not go back
Seconds(last) == {t \in {last, last + 1} : t <= MaxClock}

\* what the external utility prints in a run
RunOutputs == {IdText, DeniedText}

batch_size == 100

\* the values of --max-workers
WorkerCounts == {1, 2}

\* str(e) of the AttributeError raised by executor._futures
NoFuturesMsg == "ThreadPoolExecutor object has no attribute _futures"

\* a call of run_qsreplace that is not submitted
IdleWorker ==
    [pc |-> "idle", url |-> "", file |-> Empty, attempt |-> 0, timeouts |-> 0,
     invocations |-> 0, last |-> "none", writes |-> 0, status |-> "success",
     output |-> Empty, error |-> Empty, score |-> 0, ret |-> "pending"]

\* the URL main's loop is at
CurrentUrl == urls[url_idx]

\* the dict a call of run_qsreplace holds or has returned
Outcome(p) ==
    [url |-> CurrentUrl, payload |-> p, status |-> workers[p].status,
     output |-> workers[p].output, error |-> workers[p].error, score |-> workers[p].score]

\* the calls a pool thread is executing
Active == {p \in DOMAIN workers : workers[p].pc \in {"ready", "running"}}

\* mutant: the pool is left without waiting for its calls
AllReturned_nowait == TRUE

\* shutdown(wait=True) at the end of the with-block has returned
AllReturned == \A p \in DOMAIN workers : workers[p].pc = "returned"

InRun == pc \in {"main_check", "main_start", "loop", "url", "shutdown_wait"}

\* The URLs load_urls returns have passed validate_url, so process_url's branch for an
\* invalid URL is not taken; --max-urls is left unset.  The runs explored are the
\* runs with one payload, over one or two Targets, resumed or not, and the runs with
\* two payloads, of one Target and not resumed.
InitRun ==
    /\ pc = "main_check"
    /\ args \in [dry_run : BOOLEAN, resume : BOOLEAN, retries : 0..MaxRetries,
                 max_workers : WorkerCounts,
                 targets : SUBSET Urls \ {{}}, payloads : PayloadSets]
    /\ \/ Cardinality(args.payloads) = 1
       \/ (args.targets = {UrlB} /\ ~args.resume)
    /\ stop_execution = FALSE
    /\ state_file \in IF args.resume THEN {Missing, save_state(<<UrlA>>)}
                                     ELSE {save_state(<<UrlA>>)}
    /\ processed_urls = {}
    /\ urls = Empty
    /\ url_idx = 1
    /\ all_results = Empty
    /\ workers = [p \in args.payloads |-> IdleWorker]
    /\ invoked = {}
    /\ clock = 0
    /\ written = {}
    /\ IdleScorer
    /\ IdleLedger

\* signal_handler: the interrupt may arrive at any point of the run
Sigint ==
    /\ InRun
    /\ ~stop_execution
    /\ stop_execution' = TRUE
    /\ UNCHANGED <<args, state_file, processed_urls, urls, url_idx, all_results, pc,
                   workers, invoked, clock,
                   written>>
    /\ UNCHANGED scorerVars
    /\ UNCHANGED ledgerVars

\* check_command("qsreplace"): when find_command finds the utility it is run with -h,
\* whatever the flags of the command line; main returns when it is not found or does
\* not answer as expected
CheckQsreplace ==
    /\ pc = "main_check"
    /\ \E found \in BOOLEAN, functional \in BOOLEAN :
          /\ invoked' = IF found
                THEN invoked \cup {[kind |-> "check", url |-> "", after_stop |-> stop_execution]}
                ELSE invoked
          /\ pc' = IF found /\ functional THEN "main_start" ELSE "main_done"
    /\ UNCHANGED <<args, stop_execution, state_file, processed_urls, urls, url_idx,
                   all_results, workers, clock, written>>
    /\ UNCHANGED scorerVars
    /\ UNCHANGED ledgerVars

\* mutant: the ledger is not loaded
InitialProcessed_never(resume, file) == {}

\* processed_urls = load_state() if args.resume else set()
InitialProcessed(resume, file) == IF resume THEN load_state(file) ELSE {}

\* urls = [url for url in urls if url not in processed_urls]
RECURSIVE FilterUnprocessed(_, _)
FilterUnprocessed(list, processed) ==
    IF list = Empty THEN Empty
    ELSE (IF Head(list) \in processed THEN Empty ELSE <<Head(list)>>)
         \o FilterUnprocessed(Tail(list), processed)

\* main up to its loop: the ledger is loaded, the URLs are loaded (a list made of a
\* set, so in any order) and filtered; main returns when none is left
MainStart ==
    /\ pc = "main_start"
    /\ processed_urls' = InitialProcessed(args.resume, state_file)
    /\ loaded' = [done |-> args.resume,
                  set |-> IF args.resume THEN load_state(state_file) ELSE {}]
    /\ \E order \in Orders(args.targets) :
          urls' = FilterUnprocessed(order, processed_urls')
    /\ pc' = IF urls' = Empty THEN "main_done" ELSE "loop"
    /\ UNCHANGED <<args, stop_execution, state_file, url_idx, all_results, workers,
                   invoked, clock, written, saved>>
    /\ UNCHANGED scorerVars

\* the head of the loops: a batch starts at every batch_size-th URL, and the stop flag
\* is read there
LoopHead ==
    /\ pc = "loop"
    /\ pc' = IF url_idx > Len(urls) \/ ((url_idx - 1) % batch_size = 0 /\ stop_execution)
             THEN "main_done" ELSE "url"
    /\ UNCHANGED <<args, stop_execution, state_file, processed_urls, urls, url_idx,
                   all_results, workers, invoked, clock,
                   written>>
    /\ UNCHANGED scorerVars
    /\ UNCHANGED ledgerVars

\* process_url returns [] at once; main extends all_results by nothing and saves the state
ProcessSkip ==
    /\ pc = "url"
    /\ stop_execution \/ CurrentUrl \in processed_urls
    /\ \E order \in Orders(processed_urls) : state_file' = save_state(order)
    /\ url_idx' = url_idx + 1
    /\ pc' = "loop"
    /\ UNCHANGED <<args, stop_execution, processed_urls, urls, all_results, workers, invoked, clock,
                   written>>
    /\ UNCHANGED scorerVars
    /\ UNCHANGED ledgerVars

\* create_output_dir returns None: process_url returns [], main saves the state
ProcessNoDir ==
    /\ pc = "url"
    /\ ~(stop_execution \/ CurrentUrl \in processed_urls)
    /\ \E order \in Orders(processed_urls) : state_file' = save_state(order)
    /\ url_idx' = url_idx + 1
    /\ pc' = "loop"
    /\ UNCHANGED <<args, stop_execution, processed_urls, urls, all_results, workers, invoked, clock,
                   written>>
    /\ UNCHANGED scorerVars
    /\ UNCHANGED ledgerVars

\* process_url submits one call per payload; the evaluation of executor._futures
\* then raises AttributeError (ThreadPoolExecutor has no such attribute), and the
\* with-block waits for the submitted calls (shutdown(wait=True))
ProcessSubmit ==
    /\ pc = "url"
    /\ ~(stop_execution \/ CurrentUrl \in processed_urls)
    /\ workers' = [p \in DOMAIN workers |->
                       [IdleWorker EXCEPT !.pc = "queued", !.url = CurrentUrl]]
    /\ pc' = "shutdown_wait"
    /\ UNCHANGED <<args, stop_execution, state_file, processed_urls, urls, url_idx,
                   all_results, invoked, clock,
                   written>>
    /\ UNCHANGED scorerVars
    /\ UNCHANGED ledgerVars

\* the Outcome main's handler appends for an exception of process_url
DispatchError(url, text) ==
    [url |-> url, payload |-> "", status |-> "error", output |-> Empty,
     error |-> text, score |-> 0]

\* mutant: the Target is marked as processed although process_url raised
ProcessRaise_marks ==
    /\ pc = "shutdown_wait"
    /\ AllReturned
    /\ all_results' = Append(all_results, DispatchError(CurrentUrl, NoFuturesMsg))
    /\ workers' = [p \in DOMAIN workers |->
                       IF workers[p].pc = "returned" THEN IdleWorker ELSE workers[p]]
    /\ processed_urls' = processed_urls \cup {CurrentUrl}
    /\ url_idx' = url_idx + 1
    /\ pc' = "loop"
    /\ UNCHANGED <<args, stop_execution, state_file, urls, invoked, clock, written>>
    /\ UNCHANGED scorerVars
    /\ UNCHANGED ledgerVars

\* every submitted call has returned: the AttributeError leaves process_url before
\* processed_urls.add(url), and main's handler appends one error Outcome; save_state
\* is skipped
ProcessRaise ==
    /\ pc = "shutdown_wait"
    /\ AllReturned
    /\ all_results' = Append(all_results, DispatchError(CurrentUrl, NoFuturesMsg))
    /\ workers' = [p \in DOMAIN workers |->
                       IF workers[p].pc = "returned" THEN IdleWorker ELSE workers[p]]
    /\ url_idx' = url_idx + 1
    /\ pc' = "loop"
    /\ UNCHANGED <<args, stop_execution, state_file, processed_urls, urls, invoked, clock,
                   written>>
    /\ UNCHANGED scorerVars
    /\ UNCHANGED ledgerVars

(***************************************************************************)
(* run_qsreplace, one call per payload, executed by the threads of the     *)
(* pool while process_url waits.                                           *)
(***************************************************************************)
UnchangedByRunner ==
    /\ UNCHANGED <<args, stop_execution, state_file, processed_urls, urls, url_idx,
                   all_results, pc>>
    /\ UNCHANGED scorerVars
    /\ UNCHANGED ledgerVars

Returned(w, how) == [w EXCEPT !.pc = "returned", !.ret = how]

\* a pool thread takes the call up: the stop flag is read, then the dry-run flag;
\* otherwise the name of the artifact file is made, once for all attempts, from the
\* second the clock shows, the result dict is made and the loop over the attempts is
\* entered
RunnerEnter(p) ==
    /\ pc = "shutdown_wait"
    /\ workers[p].pc = "queued"
    /\ Cardinality(Active) < args.max_workers
    /\ \E now \in Seconds(clock) :
          /\ workers' = [workers EXCEPT ![p] =
                IF stop_execution THEN Returned(@, "None")
                ELSE IF args.dry_run
                     THEN Returned([@ EXCEPT !.status = "dry_run"], "dry_run")
                     ELSE [@ EXCEPT !.pc = "ready",
                                    !.file = sanitize_filename(workers[p].url, p, now)]]
          /\ clock' = IF stop_execution \/ args.dry_run THEN clock ELSE now
    /\ invoked' = invoked \cup
          {[kind |-> "runner", url |-> CurrentUrl, after_stop |-> stop_execution]}
    /\ UNCHANGED written
    /\ UnchangedByRunner

\* subprocess.run starts the external utility
Invoke(p) ==
    /\ pc = "shutdown_wait"
    /\ workers[p].pc = "ready"
    /\ workers' = [workers EXCEPT ![p].pc = "running", ![p].invocations = @ + 1]
    /\ invoked' = invoked \cup
          {[kind |-> "utility", url |-> CurrentUrl, after_stop |-> stop_execution]}
    /\ UNCHANGED <<clock, written>>
    /\ UnchangedByRunner

\* the statements that follow a successful subprocess.run: the output is stored and
\* scored with whatever result["error"] holds
WithOutput(w, out) ==
    [w EXCEPT !.output = out, !.score = score_payload_output(out, w.error)]

\* open(output_file, "w") and f.write: one more write by the call
WriteArtifact(w) == [w EXCEPT !.writes = @ + 1]

\* what the write puts into the file: URL, payload and score, then the captured
\* output or, after the last failed attempt, the error text
Artifact(p, w, body) ==
    [path |-> w.file, url |-> w.url, payload |-> p, score |-> w.score, body |-> body,
     text |-> IF body = "output" THEN w.output ELSE w.error]

\* the writes of the file a step of the call has made
Writes(p, before, after, body) ==
    IF after.writes > before.writes THEN {Artifact(p, after, body)} ELSE {}

\* the utility ends in time and the artifact is written (writes of the artifact are
\* taken to succeed): the result is returned
AttemptCompletes(p) ==
    /\ pc = "shutdown_wait"
    /\ workers[p].pc = "running"
    /\ \E out \in RunOutputs :
          workers' = [workers EXCEPT ![p] =
              Returned(WriteArtifact(WithOutput([@ EXCEPT !.last = "completed"], out)),
                       "completed")]
    /\ written' = written \cup Writes(p, workers[p], workers'[p], "output")
    /\ UNCHANGED <<invoked, clock>>
    /\ UnchangedByRunner

\* mutant: the loop ends without the write of the error text
AfterFailure_nowrite(w) ==
    IF w.attempt < args.retries
    THEN [w EXCEPT !.pc = "ready", !.attempt = @ + 1]
    ELSE Returned(w, "exhausted")

\* mutant: one attempt more than range(args.retries + 1) allows
AfterFailure_extra(w) ==
    IF w.attempt <= args.retries
    THEN [w EXCEPT !.pc = "ready", !.attempt = @ + 1]
    ELSE Returned(WriteArtifact(w), "exhausted")

\* the end of a failed attempt: sleep and go on to the next attempt, or, after the
\* last one, write the artifact and return the result
AfterFailure(w) ==
    IF w.attempt < args.retries
    THEN [w EXCEPT !.pc = "ready", !.attempt = @ + 1]
    ELSE Returned(WriteArtifact(w), "exhausted")

\* the handler of subprocess.TimeoutExpired
OnTimeout(w) == [w EXCEPT !.status = "timeout", !.error = TimeoutMsg, !.timeouts = @ + 1]

\* the handler of any other exception
OnException(w) == [w EXCEPT !.status = "error", !.error = ExcMsg]

\* the utility does not end within the timeout
AttemptTimesOut(p) ==
    /\ pc = "shutdown_wait"
    /\ workers[p].pc = "running"
    /\ workers' = [workers EXCEPT ![p] = AfterFailure(OnTimeout([@ EXCEPT !.last = "timeout"]))]
    /\ written' = written \cup Writes(p, workers[p], workers'[p], "error")
    /\ UNCHANGED <<invoked, clock>>
    /\ UnchangedByRunner

\* subprocess.run raises another exception
AttemptRaises(p) ==
    /\ pc = "shutdown_wait"
    /\ workers[p].pc = "running"
    /\ workers' = [workers EXCEPT ![p] = AfterFailure(OnException([@ EXCEPT !.last = "error"]))]
    /\ written' = written \cup Writes(p, workers[p], workers'[p], "error")
    /\ UNCHANGED <<invoked, clock>>
    /\ UnchangedByRunner

Next ==
    \/ Sigint
    \/ CheckQsreplace
    \/ MainStart
    \/ LoopHead
    \/ ProcessSkip
    \/ ProcessNoDir
    \/ ProcessSubmit
    \/ ProcessRaise
    \/ \E p \in DOMAIN workers : RunnerEnter(p)
    \/ \E p \in DOMAIN workers : Invoke(p)
    \/ \E p \in DOMAIN workers : AttemptCompletes(p)
    \/ \E p \in DOMAIN workers : AttemptTimesOut(p)
    \/ \E p \in DOMAIN workers : AttemptRaises(p)

Spec == InitRun /\ [][Next]_vars

(***************************************************************************)
(* Ledger harness: save_state and load_state on drawn sets and records.    *)
(***************************************************************************)
UrlC == "http://c.test/?q=1"
LedgerTargets == Urls \cup {UrlC}

\* records save_state writes
SavedRecords == UNION {{save_state(order) : order \in Orders(S)} : S \in SUBSET LedgerTargets}

\* records of another shape that the file may hold
OtherRecords == {
    Missing,
    NotJson,
    JsonFile(JNull),
    JsonFile(JArray(<<UrlA>>)),
    JsonFile(JObject("other", JArray(<<UrlA>>))),
    JsonFile(JObject("processed_urls", JNull)),
    JsonFile(JObject("processed_urls", JArrays(<< <<UrlA>> >>))),
    JsonFile(JObject("processed_urls", JString(<<"a","b">>))),
    JsonFile(JObject("processed_urls", JObject("k", JNull))) }

InitLedger ==
    /\ pc = "ledger"
    /\ processed_urls \in SUBSET LedgerTargets
    /\ state_file \in SavedRecords \cup OtherRecords
    /\ IdleLedger
    /\ IdleRun
    /\ IdleScorer

\* save_state(processed_urls)
LedgerSave ==
    /\ pc = "ledger"
    /\ \E order \in Orders(processed_urls) : state_file' = save_state(order)
    /\ saved' = [valid |-> TRUE, set |-> processed_urls]
    /\ loaded' = [done |-> FALSE, set |-> {}]
    /\ UNCHANGED <<processed_urls, pc>>
    /\ UNCHANGED runVars
    /\ UNCHANGED scorerVars

\* processed_urls = load_state()
LedgerLoad ==
    /\ pc = "ledger"
    /\ processed_urls' = load_state(state_file)
    /\ loaded' = [done |-> TRUE, set |-> processed_urls']
    /\ UNCHANGED <<state_file, saved, pc>>
    /\ UNCHANGED runVars
    /\ UNCHANGED scorerVars

NextLedger == LedgerSave \/ LedgerLoad

SpecLedger == InitLedger /\ [][NextLedger]_vars

\* the record is what the ledger is documented to be: an object whose processed_urls
\* is an array of strings
IsLedgerRecord(file) ==
    IF file.t # "json" THEN FALSE
    ELSE IF file.doc.j # "object" THEN FALSE
    ELSE IF file.doc.key # "processed_urls" THEN FALSE
    ELSE file.doc.val.j = "array"

\* the first half of C10: a load of the record a save wrote returns the saved set
RoundTrip == (loaded.done /\ saved.valid) => loaded.set = saved.set

\* C10: load(save(S)) = S for every set S of Targets, and a load of a missing or
\* malformed record returns the empty set.
C10_Original ==
    /\ RoundTrip
    /\ (loaded.done /\ ~IsLedgerRecord(state_file)) => loaded.set = {}

(***************************************************************************)
(* The run and the Scorer harness together.                                *)
(***************************************************************************)
SpecAll == (InitRun \/ InitScorer) /\ [][Next \/ NextScorer]_vars

(***************************************************************************)
(* Claims about the run.                                                   *)
(***************************************************************************)
\* a call of run_qsreplace was started for the URL
RunnerCalled(u) == \E i \in invoked : i.kind = "runner" /\ i.url = u

\* the calls that have returned an Outcome
ReturnedOutcome(p) ==
    workers[p].pc = "returned" /\ workers[p].ret \in {"dry_run", "completed", "exhausted"}

\* C1: when an attempt of run_qsreplace completes without timeout or exception, the
\* Outcome it returns has status success (so also after two timed-out attempts).
C1_Original ==
    \A p \in DOMAIN workers :
        /\ (workers[p].pc = "returned" /\ workers[p].ret = "completed")
              => workers[p].status = "success"
        /\ (workers[p].pc = "returned" /\ workers[p].ret = "completed"
              /\ args.retries = 2 /\ workers[p].attempt = 2 /\ workers[p].timeouts = 2)
              => workers[p].status = "success"

\* C2: a dry run that is not interrupted ends with exactly one Outcome per
\* (Target, Payload) pair in all_results, each with status dry_run and score 0.
C2_Original ==
    (pc = "main_done" /\ args.dry_run /\ ~stop_execution
        /\ \A u \in Range(urls) : RunnerCalled(u)) =>
        /\ Len(all_results) = Len(urls) * Cardinality(args.payloads)
        /\ \A i \in 1..Len(all_results) :
              all_results[i].status = "dry_run" /\ all_results[i].score = 0
        /\ \A u \in Range(urls), p \in args.payloads :
              \E i \in 1..Len(all_results) :
                  all_results[i].url = u /\ all_results[i].payload = p

\* C3: with resume on, a Target that the loaded ledger holds gets no call of the
\* Runner and no Outcome in all_results.
C3_ResumeSkip ==
    loaded.done =>
        \A u \in loaded.set :
            /\ ~ \E i \in invoked : i.url = u
            /\ ~ \E i \in 1..Len(all_results) : all_results[i].url = u

C3_Witness ==
    /\ pc = "main_done"
    /\ loaded.done
    /\ UrlA \in loaded.set
    /\ args.targets = {UrlA, UrlB}
    /\ RunnerCalled(UrlB)
    /\ \E i \in 1..Len(all_results) : all_results[i].url = UrlB

\* C4: once the calls of a dispatched Target have finished and main has moved on, the
\* Target is in processed_urls and in the saved ledger.
C4_Original ==
    \A k \in 1..(url_idx - 1) :
        RunnerCalled(urls[k]) =>
            /\ urls[k] \in processed_urls
            /\ urls[k] \in load_state(state_file)

\* C5: the external utility is never started while the stop flag is set.
C5_Original ==
    \A i \in invoked : i.kind = "utility" => ~i.after_stop

\* the score max(0, 2k - p) of a text by its indicators and negative markers alone
IndicatorScore(output) ==
    Max(0, 2 * Cardinality(IndicatorsIn(output))
           - (IF NegativesIn(output) # {} THEN 1 ELSE 0))

\* C6: the score of every Outcome the Runner returns is the indicator score of its
\* captured output, whatever its error text.
C6_Original ==
    \A p \in DOMAIN workers :
        ReturnedOutcome(p) => workers[p].score = IndicatorScore(workers[p].output)

\* C9: no Outcome, in all_results or held by a call of the Runner, has a negative
\* score, and the Scorer returns no negative value.
C9_NonNegative ==
    /\ \A i \in 1..Len(all_results) : all_results[i].score >= 0
    /\ \A p \in DOMAIN workers : workers[p].score >= 0
    /\ sc_score >= 0

C9_Witness ==
    /\ Len(all_results) > 0
    /\ \E p \in DOMAIN workers :
          /\ ReturnedOutcome(p)
          /\ workers[p].error = Empty
          /\ workers[p].output = DeniedText
          /\ workers[p].score = 0

(***************************************************************************)
(* Claims about the artifact files and the attempts of run_qsreplace.      *)
(***************************************************************************)
\* C11: every artifact path is written by one call of the Runner only: no two calls of
\* the Runner for distinct (Target, Payload) pairs write the same artifact file,
\* whatever the payloads and the timing of the pool threads.
C11_Original ==
    \A e, g \in written :
        e.path = g.path => (e.url = g.url /\ e.payload = g.payload)

\* C12: in a dry run the external substitution utility is never executed and no
\* artifact file is written.
C12_Original ==
    args.dry_run =>
        /\ \A i \in invoked : i.kind \notin {"check", "utility"}
        /\ written = {}

\* the write e is a write by the call p, whose state is w, of what the call returned
HoldsResult(e, p, w) ==
    /\ e.path = w.file
    /\ e.url = w.url
    /\ e.payload = p
    /\ e.score = w.score
    /\ IF w.last = "completed"
       THEN e.body = "output" /\ e.text = w.output
       ELSE e.body = "error" /\ e.text = w.error

RetryBounds ==
    \A p \in DOMAIN workers :
        LET w == workers[p]
        IN  /\ w.invocations <= args.retries + 1
            /\ w.last = "completed" =>
                  w.pc = "returned" /\ w.ret = "completed" /\ w.invocations = w.attempt + 1
            /\ (w.invocations = args.retries + 1 /\ w.pc # "running"
                  /\ w.last \in {"timeout", "error"}) =>
                  /\ w.pc = "returned"
                  /\ w.ret = "exhausted"
                  /\ w.status = w.last
                  /\ w.error = (IF w.last = "timeout" THEN TimeoutMsg ELSE ExcMsg)
            /\ (w.pc = "returned" /\ w.ret = "exhausted") =>
                  w.invocations = args.retries + 1 /\ w.last \in {"timeout", "error"}

\* how far the loop of a call has got: twice the failed attempts, plus one while the
\* utility runs; at most 2 * retries + 1
LoopRank(w) == 2 * w.attempt + (IF w.pc = "running" THEN 1 ELSE 0)

\* every step of a call that is in its loop returns the Outcome or takes the loop further
LoopProgress ==
    \A p \in DOMAIN workers :
        (workers[p].pc \in {"ready", "running"} /\ workers'[p] # workers[p]) =>
            \/ workers'[p].pc = "returned"
            \/ /\ workers'[p].pc \in {"ready", "running"}
               /\ LoopRank(workers'[p]) > LoopRank(workers[p])
               /\ LoopRank(workers'[p]) <= 2 * args.retries + 1

InFlight == {p \in DOMAIN workers : workers[p].pc \in {"ready", "running"}}

\* the calls submitted to the pool that have not returned
Unfinished == {p \in DOMAIN workers : workers[p].pc \in {"queued", "ready", "running"}}

\* C15: at most max_workers calls of the Runner are in flight, all of them for the
\* Target main's loop is at; while a call is unfinished main waits in process_url,
\* so no call for a later Target starts before the calls of the Target before it
\* have finished.
C15_PoolConfined ==
    /\ Cardinality(InFlight) <= args.max_workers
    /\ \A p \in Unfinished : pc = "shutdown_wait" /\ workers[p].url = CurrentUrl
    /\ \A p, q \in InFlight : workers[p].url = workers[q].url

C15_Witness ==
    /\ args.max_workers = 1
    /\ Cardinality(InFlight) = 1
    /\ \E p \in DOMAIN workers : workers[p].pc = "queued"

\* the Outcomes of all_results for a URL
OutcomesOf(results, u) == {i \in 1..Len(results) : results[i].url = u}

\* a step of the run after its start: the processed set only grows, and by the Target
\* of a process_url call whose submitted calls have all returned; a step that ends
\* process_url without dispatch (stop flag, processed, no output directory) adds
\* nothing; a step in which process_url raises adds nothing and appends one error
\* Outcome with empty payload and score 0
LedgerStep ==
    /\ processed_urls \subseteq processed_urls'
    /\ pc \notin {"main_check", "main_start"} =>
          \A u \in processed_urls' \ processed_urls :
              /\ pc = "shutdown_wait"
              /\ u = CurrentUrl
              /\ Unfinished = {}
    /\ (pc = "url" /\ pc' = "loop") =>
          /\ processed_urls' = processed_urls
          /\ load_state(state_file') = processed_urls
          /\ all_results' = all_results
    /\ (pc = "shutdown_wait" /\ pc' = "loop") =>
          /\ processed_urls' = processed_urls
          /\ state_file' = state_file
          /\ Len(all_results') = Len(all_results) + 1
          /\ SubSeq(all_results', 1, Len(all_results)) = all_results
          /\ LET o == all_results'[Len(all_results')]
             IN  o.url = CurrentUrl /\ o.status = "error" /\ o.payload = "" /\ o.score = 0

\* C16: during a run the processed set only grows; a Target is added to it only at the
\* end of a process_url call whose fan-out was started and whose submitted calls had
\* all finished; a Target skipped for the stop flag or for its output directory, or
\* whose process_url call raised, is not added by the run, and for a raised exception
\* one error Outcome with empty payload and score 0 is appended.
C16_LedgerGrowth == [][LedgerStep]_vars

C16_Witness ==
    /\ pc = "main_done"
    /\ Len(urls) = 2
    /\ RunnerCalled(urls[1])
    /\ urls[1] \notin processed_urls
    /\ urls[1] \notin load_state(state_file)
    /\ Cardinality(OutcomesOf(all_results, urls[1])) = 1
    /\ \A i \in OutcomesOf(all_results, urls[1]) :
          all_results[i].payload = "" /\ all_results[i].score = 0
    /\ ~RunnerCalled(urls[2])
    /\ urls[2] \notin processed_urls
    /\ OutcomesOf(all_results, urls[2]) = {}

====
